---- MODULE Spec2Model ----
(***************************************************************************)
(* The Pythnet price account of program/rust/src/accounts/price.rs: the    *)
(* cumulative sums behind the TWAP (PriceCumulative::update and            *)
(* update_price_cumulative), the two messages derived from the account     *)
(* (as_price_feed_message, as_twap_message) and the wire encoding of the   *)
(* three message kinds (PythOracleSerialize::to_bytes).                    *)
(*                                                                         *)
(* Integer widths are scaled: a 64-bit integer of the program is W bits    *)
(* wide here and a 128-bit one 2*W bits, so that the ratio the overflow    *)
(* argument of price.rs:170-173 rests on is kept and every value can be    *)
(* enumerated.  Bytes are real bytes (0..255) and every field is encoded   *)
(* at the byte width it has in the program.                                *)
(***************************************************************************)
EXTENDS Integers, Sequences, FiniteSets, TLC

VARIABLES
    account,          \* the PriceAccountPythnet (the fields the code reads)
    overflow_checks,  \* the build: TRUE = an overflowing `+=` panics, FALSE = it wraps
    overflowed,       \* the last call computed an exact result that did not fit its type
    panicked,         \* a `+=` overflowed in a build with overflow checks
    op,               \* the operation that acted last
    calls,            \* the fold-ins so far, in order, with their arguments
    folds,            \* how many update_price_cumulative calls have run
    msg,              \* the message the last as_*_message / to_bytes call was about
    bytes,            \* the result of the last to_bytes
    slot,             \* the host's current slot
    snap              \* a caller's earlier snapshot of the account (NoSnap: none)

vars == <<account, overflow_checks, overflowed, panicked, op, calls, folds, msg, bytes, slot, snap>>

-----------------------------------------------------------------------------
(* Bounds of the model *)

\* bits of a scaled 64-bit integer (a 128-bit integer has 2*W)
W == 5
\* PriceCumulative::update calls in one behaviour
MaxCalls == 3
\* update_price_cumulative calls on an account the host writes at will
MaxFolds == 2
\* aggregation attempts of the aggregation in slot order
MaxAggs == 4
\* u16::MAX, scaled like the other widths so that a list of stake caps longer
\* than it can be enumerated (the count prefix keeps its two bytes)
U16_MAX == 3

RECURSIVE Pow2(_)
Pow2(n) == IF n = 0 THEN 1 ELSE 2 * Pow2(n - 1)

\* 2^64 and 2^128, scaled
Two64 == Pow2(W)
Two128 == Pow2(2 * W)

I64_MIN == -(Two64 \div 2)
I64_MAX == (Two64 \div 2) - 1
U64_MAX == Two64 - 1
I128_MIN == -(Two128 \div 2)
I128_MAX == (Two128 \div 2) - 1
U128_MAX == Two128 - 1

-----------------------------------------------------------------------------
(* Constants of c_oracle_header the file imports *)

PC_STATUS_UNKNOWN == 0
PC_STATUS_TRADING == 1
PC_STATUS_HALTED == 2
PC_MAX_SEND_LATENCY == 25

-----------------------------------------------------------------------------
(* Integer arithmetic at the program's widths *)

\* u64::saturating_sub
saturating_sub(a, b) == IF a >= b THEN a - b ELSE 0

\* the value an integer of the type with `modulus` values keeps of x
\* (two's complement for the signed types)
WrapSigned(x, modulus) == ((x + modulus \div 2) % modulus) - modulus \div 2
WrapUnsigned(x, modulus) == x % modulus

\* i128 arithmetic: the wrapped value and whether the exact result left the type
OpI128(x) == [val |-> WrapSigned(x, Two128), ovf |-> (x < I128_MIN \/ x > I128_MAX)]
OpU128(x) == [val |-> WrapUnsigned(x, Two128), ovf |-> (x < 0 \/ x > U128_MAX)]
OpU64(x) == [val |-> WrapUnsigned(x, Two64), ovf |-> (x < 0 \/ x > U64_MAX)]

\* the product as a multiplication in i64 would compute it
MulPriceNarrow(price, slot_gap) ==
    [val |-> WrapSigned(price * slot_gap, Two64),
     ovf |-> (price * slot_gap < I64_MIN \/ price * slot_gap > I64_MAX)]
\* i128::from(price) * i128::from(slot_gap)
MulPrice(price, slot_gap) == OpI128(price * slot_gap)

\* u128::from(conf) * u128::from(slot_gap)
MulConf(conf, slot_gap) == OpU128(conf * slot_gap)

\* the latency without the fallback for max_latency = 0
LatencyNoFallback(max_latency) == max_latency
\* the latency PriceCumulative::update compares the gap with
Latency(max_latency) ==
    IF max_latency = 0 THEN PC_MAX_SEND_LATENCY ELSE max_latency

\* the total with `=` written for `+=`
DownTotalAssigned(num_down_slots, slot_gap, latency) ==
    saturating_sub(slot_gap, latency)
\* self.num_down_slots += slot_gap.saturating_sub(latency), before the result
\* is fitted to u64
DownTotal(num_down_slots, slot_gap, latency) ==
    num_down_slots + saturating_sub(slot_gap, latency)

-----------------------------------------------------------------------------
(* PriceCumulative *)

ZeroCumulative == [price |-> 0, conf |-> 0, num_down_slots |-> 0, unused |-> 0]

\* PriceCumulative::update: the three `+=` in order.  The result is the struct
\* as the call leaves it, whether an exact result did not fit its type, and
\* whether the call panicked for it (a build with overflow checks); a panic
\* leaves the additions before it done, a wrapping build goes on.
PriceCumulative_update(self, price, conf, slot_gap, max_latency, checks) ==
    LET mp == MulPrice(price, slot_gap)
        p  == OpI128(self.price + mp.val)
        mc == MulConf(conf, slot_gap)
        c  == OpU128(self.conf + mc.val)
        d  == OpU64(DownTotal(self.num_down_slots, slot_gap, Latency(max_latency)))
        s1 == [self EXCEPT !.price = p.val]
        s2 == [s1 EXCEPT !.conf = c.val]
        s3 == [s2 EXCEPT !.num_down_slots = d.val]
        ovf == mp.ovf \/ p.ovf \/ mc.ovf \/ c.ovf \/ d.ovf
    IN  IF checks /\ (mp.ovf \/ p.ovf)
            THEN [pc |-> self, overflowed |-> TRUE, panicked |-> TRUE]
        ELSE IF checks /\ (mc.ovf \/ c.ovf)
            THEN [pc |-> s1, overflowed |-> TRUE, panicked |-> TRUE]
        ELSE IF checks /\ d.ovf
            THEN [pc |-> s2, overflowed |-> TRUE, panicked |-> TRUE]
        ELSE [pc |-> s3, overflowed |-> ovf, panicked |-> FALSE]

-----------------------------------------------------------------------------
(* The account *)

ZeroInfo == [price_ |-> 0, conf_ |-> 0, status_ |-> PC_STATUS_UNKNOWN, pub_slot_ |-> 0]

\* a zeroed PriceAccountPythnet (Zeroable)
ZeroAccount ==
    [exponent |-> 0, last_slot_ |-> 0, twap_ |-> 0, twac_ |-> 0, timestamp_ |-> 0,
     max_latency_ |-> 0, prev_slot_ |-> 0, prev_price_ |-> 0, prev_conf_ |-> 0,
     prev_timestamp_ |-> 0, agg_ |-> ZeroInfo, price_cumulative |-> ZeroCumulative]

NoMsg == [kind |-> "none"]
NoSnap == [taken |-> FALSE]

\* Pubkey::to_bytes: the 32 bytes of a key
KeyBytes(b) == [i \in 1..32 |-> (b + i) % 256]
Keys == {KeyBytes(0), KeyBytes(230)}

\* the gap as a wrapping subtraction would compute it
SlotGapWrapping(self) == WrapUnsigned(self.agg_.pub_slot_ - self.prev_slot_, Two64)
\* self.agg_.pub_slot_.saturating_sub(self.prev_slot_)
SlotGap(self) == saturating_sub(self.agg_.pub_slot_, self.prev_slot_)

\* update_price_cumulative without its test of the status
UpdatePriceCumulativeAlways(self, checks) ==
    LET r == PriceCumulative_update(self.price_cumulative, self.agg_.price_,
                 self.agg_.conf_, SlotGap(self), self.max_latency_, checks)
    IN  [account |-> [self EXCEPT !.price_cumulative = r.pc],
         overflowed |-> r.overflowed, panicked |-> r.panicked]
\* update_price_cumulative: the account as the call leaves it, with the
\* overflow and the panic of the fold-in, if it ran
UpdatePriceCumulative(self, checks) ==
    IF self.agg_.status_ = PC_STATUS_TRADING
    THEN LET r == PriceCumulative_update(self.price_cumulative, self.agg_.price_,
                      self.agg_.conf_, SlotGap(self), self.max_latency_, checks)
         IN  [account |-> [self EXCEPT !.price_cumulative = r.pc],
              overflowed |-> r.overflowed, panicked |-> r.panicked]
    ELSE [account |-> self, overflowed |-> FALSE, panicked |-> FALSE]

\* the selection without its test of the status
FeedSelectionLatest(self) ==
    <<self.agg_.price_, self.agg_.conf_, self.timestamp_>>
\* the (price, conf, publish_time) as_price_feed_message reports
FeedSelection(self) ==
    IF self.agg_.status_ = PC_STATUS_TRADING
    THEN <<self.agg_.price_, self.agg_.conf_, self.timestamp_>>
    ELSE <<self.prev_price_, self.prev_conf_, self.prev_timestamp_>>

AsPriceFeedMessage(self, key) ==
    LET sel == FeedSelection(self)
    IN  [kind |-> "PriceFeedMessage",
         feed_id |-> key,
         price |-> sel[1],
         conf |-> sel[2],
         exponent |-> self.exponent,
         publish_time |-> sel[3],
         prev_publish_time |-> self.prev_timestamp_,
         ema_price |-> self.twap_,
         ema_conf |-> WrapUnsigned(self.twac_, Two64)]

\* as_twap_message with the slot of the latest attempt for publish_slot
AsTwapMessageAttemptSlot(self, key) ==
    [kind |-> "TwapMessage",
     feed_id |-> key,
     cumulative_price |-> self.price_cumulative.price,
     cumulative_conf |-> self.price_cumulative.conf,
     num_down_slots |-> self.price_cumulative.num_down_slots,
     exponent |-> self.exponent,
     publish_time |-> IF self.agg_.status_ = PC_STATUS_TRADING
                      THEN self.timestamp_ ELSE self.prev_timestamp_,
     prev_publish_time |-> self.prev_timestamp_,
     publish_slot |-> self.agg_.pub_slot_]
\* as_twap_message
AsTwapMessage(self, key) ==
    [kind |-> "TwapMessage",
     feed_id |-> key,
     cumulative_price |-> self.price_cumulative.price,
     cumulative_conf |-> self.price_cumulative.conf,
     num_down_slots |-> self.price_cumulative.num_down_slots,
     exponent |-> self.exponent,
     publish_time |-> IF self.agg_.status_ = PC_STATUS_TRADING
                      THEN self.timestamp_ ELSE self.prev_timestamp_,
     prev_publish_time |-> self.prev_timestamp_,
     publish_slot |-> self.last_slot_]

-----------------------------------------------------------------------------
(* An account whose fields the host and the aggregation write at will *)

\* the latest attempt: a price with its confidence, any status, any slot
Quotes == {<<-3, 2>>, <<I64_MAX, U64_MAX>>}
AggInfos ==
    {[price_ |-> q[1], conf_ |-> q[2], status_ |-> st, pub_slot_ |-> ps] :
        q \in Quotes,
        st \in {PC_STATUS_UNKNOWN, PC_STATUS_TRADING, PC_STATUS_HALTED},
        ps \in {0, PC_MAX_SEND_LATENCY + 2, U64_MAX}}

\* the snapshot of the last successful aggregation before it
PrevSnapshots ==
    {[prev_slot_ |-> 1, prev_price_ |-> 4, prev_conf_ |-> 3, prev_timestamp_ |-> 6],
     [prev_slot_ |-> U64_MAX, prev_price_ |-> -3, prev_conf_ |-> 2,
      prev_timestamp_ |-> 9]}

\* the bookkeeping and the configuration
Books ==
    {[timestamp_ |-> 9, last_slot_ |-> PC_MAX_SEND_LATENCY + 2, twap_ |-> 4,
      twac_ |-> -2, exponent |-> -5, max_latency_ |-> 0],
     [timestamp_ |-> 7, last_slot_ |-> 1, twap_ |-> -4,
      twac_ |-> 3, exponent |-> 2, max_latency_ |-> 2]}

Init ==
    /\ account = ZeroAccount
    /\ overflow_checks \in BOOLEAN
    /\ overflowed = FALSE
    /\ panicked = FALSE
    /\ op = "init"
    /\ calls = <<>>
    /\ folds = 0
    /\ msg = NoMsg
    /\ bytes = <<>>
    /\ slot = 0
    /\ snap = NoSnap

\* the aggregation writes the latest attempt
write_agg ==
    /\ ~panicked
    /\ \E a \in AggInfos : account' = [account EXCEPT !.agg_ = a]
    /\ op' = "write"
    /\ overflowed' = FALSE
    /\ msg' = NoMsg
    /\ UNCHANGED <<overflow_checks, panicked, calls, folds, bytes, slot, snap>>

\* the aggregation writes the snapshot of the previous success
write_prev ==
    /\ ~panicked
    /\ \E p \in PrevSnapshots :
          account' = [account EXCEPT
              !.prev_slot_ = p.prev_slot_, !.prev_price_ = p.prev_price_,
              !.prev_conf_ = p.prev_conf_, !.prev_timestamp_ = p.prev_timestamp_]
    /\ op' = "write"
    /\ overflowed' = FALSE
    /\ msg' = NoMsg
    /\ UNCHANGED <<overflow_checks, panicked, calls, folds, bytes, slot, snap>>

\* the host writes the bookkeeping and the configuration
write_books ==
    /\ ~panicked
    /\ \E b \in Books :
          account' = [account EXCEPT
              !.timestamp_ = b.timestamp_, !.last_slot_ = b.last_slot_,
              !.twap_ = b.twap_, !.twac_ = b.twac_, !.exponent = b.exponent,
              !.max_latency_ = b.max_latency_]
    /\ op' = "write"
    /\ overflowed' = FALSE
    /\ msg' = NoMsg
    /\ UNCHANGED <<overflow_checks, panicked, calls, folds, bytes, slot, snap>>

update_price_cumulative ==
    /\ ~panicked
    /\ folds < MaxFolds
    /\ LET r == UpdatePriceCumulative(account, overflow_checks)
       IN  /\ account' = r.account
           /\ overflowed' = r.overflowed
           /\ panicked' = r.panicked
    /\ folds' = folds + 1
    /\ op' = "update_price_cumulative"
    /\ msg' = NoMsg
    /\ UNCHANGED <<overflow_checks, calls, bytes, slot, snap>>

as_price_feed_message ==
    /\ ~panicked
    /\ \E key \in Keys : msg' = AsPriceFeedMessage(account, key)
    /\ op' = "as_price_feed_message"
    /\ overflowed' = FALSE
    /\ UNCHANGED <<account, overflow_checks, panicked, calls, folds, bytes, slot,
                   snap>>

as_twap_message ==
    /\ ~panicked
    /\ \E key \in Keys : msg' = AsTwapMessage(account, key)
    /\ op' = "as_twap_message"
    /\ overflowed' = FALSE
    /\ UNCHANGED <<account, overflow_checks, panicked, calls, folds, bytes, slot,
                   snap>>

Next ==
    \/ write_agg
    \/ write_prev
    \/ write_books
    \/ update_price_cumulative
    \/ as_price_feed_message
    \/ as_twap_message

Spec == Init /\ [][Next]_vars

\* a step of update_price_cumulative
IsUpdateStep == op' = "update_price_cumulative" /\ folds' = folds + 1

\* C1: when agg_.status_ is not PC_STATUS_TRADING, update_price_cumulative
\* leaves every field of price_cumulative as it was (and nothing overflows).
C1_NoOpUnlessTrading ==
    [][(IsUpdateStep /\ account.agg_.status_ # PC_STATUS_TRADING) =>
          /\ account'.price_cumulative = account.price_cumulative
          /\ ~overflowed' /\ ~panicked']_vars

\* C1 witness: a failed attempt with a positive gap was offered to an account whose sums
\* an earlier successful aggregation had advanced
C1_Witness ==
    /\ op = "update_price_cumulative"
    /\ folds = 2
    /\ account.agg_.status_ = PC_STATUS_HALTED
    /\ account.agg_.pub_slot_ > account.prev_slot_
    /\ account.price_cumulative.price # 0
    /\ account.price_cumulative.conf # 0
    /\ account.price_cumulative.num_down_slots # 0

\* C4: as_price_feed_message reports (agg_.price_, agg_.conf_, timestamp_) when
\* agg_.status_ is PC_STATUS_TRADING and (prev_price_, prev_conf_,
\* prev_timestamp_) for every other status; prev_publish_time is
\* prev_timestamp_ in both cases.
C4_FeedMessageMasksFailedAttempt ==
    op = "as_price_feed_message" =>
        /\ msg.kind = "PriceFeedMessage"
        /\ account.agg_.status_ = PC_STATUS_TRADING =>
              /\ msg.price = account.agg_.price_
              /\ msg.conf = account.agg_.conf_
              /\ msg.publish_time = account.timestamp_
        /\ account.agg_.status_ # PC_STATUS_TRADING =>
              /\ msg.price = account.prev_price_
              /\ msg.conf = account.prev_conf_
              /\ msg.publish_time = account.prev_timestamp_
        /\ msg.prev_publish_time = account.prev_timestamp_

\* C4 witness: a message derived after a failed attempt whose price, confidence and
\* timestamp all differ from the snapshot's
C4_Witness ==
    /\ op = "as_price_feed_message"
    /\ account.agg_.status_ = PC_STATUS_HALTED
    /\ account.agg_.price_ # account.prev_price_
    /\ account.agg_.conf_ # account.prev_conf_
    /\ account.timestamp_ # account.prev_timestamp_
    /\ msg.price = account.prev_price_

\* C5: for every status as_twap_message reports the current price_cumulative
\* fields and publish_slot = last_slot_; only publish_time depends on the
\* status (timestamp_ when Trading, prev_timestamp_ otherwise).
C5_TwapMessageReadsCumulative ==
    op = "as_twap_message" =>
        /\ msg.kind = "TwapMessage"
        /\ msg.cumulative_price = account.price_cumulative.price
        /\ msg.cumulative_conf = account.price_cumulative.conf
        /\ msg.num_down_slots = account.price_cumulative.num_down_slots
        /\ msg.publish_slot = account.last_slot_
        /\ msg.publish_time =
              IF account.agg_.status_ = PC_STATUS_TRADING
              THEN account.timestamp_ ELSE account.prev_timestamp_

\* C5 witness: a message derived after a failed attempt at a slot other than last_slot_,
\* from sums that successful aggregations had advanced
C5_Witness ==
    /\ op = "as_twap_message"
    /\ account.agg_.status_ # PC_STATUS_TRADING
    /\ account.agg_.pub_slot_ # account.last_slot_
    /\ account.timestamp_ # account.prev_timestamp_
    /\ msg.cumulative_price # 0
    /\ msg.num_down_slots # 0
    /\ msg.publish_slot = account.last_slot_

C10_OutOfOrderSlotIsNoOp ==
    [][(/\ IsUpdateStep
        /\ account.agg_.status_ = PC_STATUS_TRADING
        /\ account.agg_.pub_slot_ <= account.prev_slot_) =>
          /\ SlotGap(account) = 0
          /\ ~overflowed' /\ ~panicked'
          /\ account'.price_cumulative.price = account.price_cumulative.price
          /\ account'.price_cumulative.conf = account.price_cumulative.conf
          /\ account'.price_cumulative.num_down_slots =
                 account.price_cumulative.num_down_slots]_vars

\* C10 witness: a successful aggregation at a slot before prev_slot_ was offered to an
\* account whose sums were not zero
C10_Witness ==
    /\ op = "update_price_cumulative"
    /\ account.agg_.status_ = PC_STATUS_TRADING
    /\ account.agg_.pub_slot_ < account.prev_slot_
    /\ account.agg_.price_ # 0
    /\ account.price_cumulative.price # 0

-----------------------------------------------------------------------------
(* PriceCumulative::update on its own: any sequence of calls from zero *)

FoldPrices == {I64_MIN, I64_MAX}
FoldConfs == {1, U64_MAX}
FoldGaps == {0, U64_MAX - (PC_MAX_SEND_LATENCY + 1), PC_MAX_SEND_LATENCY + 1, U64_MAX}
FoldLatencies == {0, 1}

InitFold ==
    /\ account = ZeroAccount
    /\ overflow_checks \in BOOLEAN
    /\ overflowed = FALSE
    /\ panicked = FALSE
    /\ op = "init"
    /\ calls = <<>>
    /\ folds = 0
    /\ msg = NoMsg
    /\ bytes = <<>>
    /\ slot = 0
    /\ snap = NoSnap

update ==
    /\ ~panicked
    /\ Len(calls) < MaxCalls
    /\ \E price \in FoldPrices, conf \in FoldConfs,
          slot_gap \in FoldGaps, max_latency \in FoldLatencies :
          LET r == PriceCumulative_update(account.price_cumulative, price, conf,
                                          slot_gap, max_latency, overflow_checks)
          IN  /\ account' = [account EXCEPT !.price_cumulative = r.pc]
              /\ overflowed' = r.overflowed
              /\ panicked' = r.panicked
              /\ calls' = Append(calls, [price |-> price, conf |-> conf,
                                         slot_gap |-> slot_gap,
                                         max_latency |-> max_latency])
    /\ op' = "update"
    /\ UNCHANGED <<overflow_checks, folds, msg, bytes, slot, snap>>

NextFold == update

SpecFold == InitFold /\ [][NextFold]_vars

-----------------------------------------------------------------------------
(* The sums of a sequence of calls, computed in the unbounded integers *)

RECURSIVE SumPrice(_)
SumPrice(cs) ==
    IF cs = <<>> THEN 0
    ELSE cs[1].price * cs[1].slot_gap + SumPrice(Tail(cs))

RECURSIVE SumConf(_)
SumConf(cs) ==
    IF cs = <<>> THEN 0
    ELSE cs[1].conf * cs[1].slot_gap + SumConf(Tail(cs))

RECURSIVE SumGaps(_)
SumGaps(cs) ==
    IF cs = <<>> THEN 0 ELSE cs[1].slot_gap + SumGaps(Tail(cs))

Max(a, b) == IF a >= b THEN a ELSE b

RECURSIVE SumDown(_)
SumDown(cs) ==
    IF cs = <<>> THEN 0
    ELSE LET L == IF cs[1].max_latency # 0 THEN cs[1].max_latency
                  ELSE PC_MAX_SEND_LATENCY
         IN  Max(0, cs[1].slot_gap - L) + SumDown(Tail(cs))

CumulativeIsSum ==
    /\ account.price_cumulative.price = SumPrice(calls)
    /\ account.price_cumulative.conf = SumConf(calls)
    /\ account.price_cumulative.num_down_slots = SumDown(calls)

\* C2 as stated: after any sequence of update calls from a zeroed
\* PriceCumulative, price, conf and num_down_slots equal the independently
\* computed sums of price_i * gap_i, conf_i * gap_i and max(0, gap_i - L_i).
C2_AnySequenceIsSum == CumulativeIsSum

\* C2, amended: the sums are the independently computed ones whenever the gaps
\* of the calls total at most u64::MAX, and then no call panics.
C2_Additivity ==
    SumGaps(calls) <= U64_MAX => (~panicked /\ CumulativeIsSum)

\* C2 witness: three calls within the slot range, with both kinds of latency, a down slot
\* counted and a gap below the latency saturated to zero
C2_Witness ==
    /\ op = "update"
    /\ Len(calls) = 3
    /\ SumGaps(calls) <= U64_MAX
    /\ \E i, j \in 1..Len(calls) :
          /\ calls[i].max_latency = 0 /\ calls[i].slot_gap > PC_MAX_SEND_LATENCY
          /\ calls[j].max_latency # 0 /\ calls[j].slot_gap > calls[j].max_latency
          /\ i # j
    /\ account.price_cumulative.num_down_slots > 0
    /\ account.price_cumulative.price # 0

\* C3: while the gaps total at most u64::MAX no multiplication or addition of
\* PriceCumulative::update overflows (so no build panics or wraps), the exact
\* sums lie in i128 and u128, and num_down_slots lies in u64 and is at most
\* the total of the gaps.
C3_NoOverflow ==
    SumGaps(calls) <= U64_MAX =>
        /\ ~overflowed
        /\ ~panicked
        /\ I128_MIN <= SumPrice(calls) /\ SumPrice(calls) <= I128_MAX
        /\ SumConf(calls) <= U128_MAX
        /\ account.price_cumulative.num_down_slots <= SumGaps(calls)
        /\ account.price_cumulative.num_down_slots <= U64_MAX

\* C3 witness: the extreme inputs: the gaps total exactly u64::MAX over two calls, at the
\* most negative price and the largest confidence
C3_Witness ==
    /\ op = "update"
    /\ Len(calls) >= 2
    /\ \A i \in 1..Len(calls) : calls[i].slot_gap > 0
    /\ SumGaps(calls) = U64_MAX
    /\ account.price_cumulative.price = I64_MIN * U64_MAX
    /\ account.price_cumulative.conf = U64_MAX * U64_MAX

-----------------------------------------------------------------------------
(* The aggregation in slot order: one attempt per slot it runs in, each       *)
(* followed by update_price_cumulative                                        *)

\* how far the host's slot moves between two attempts
SlotSteps == {1, 3, PC_MAX_SEND_LATENCY + 1}
Failed == <<>>

\* One aggregation attempt at slot s: the previous attempt, if it succeeded,
\* becomes the prev_ snapshot; agg_ takes the attempt's slot and, on success
\* (outcome is a quote), status Trading, the price and the confidence, and
\* last_slot_ the slot; a failed attempt leaves status Unknown.
UpdAggregate(self, s, outcome) ==
    LET a1 == IF self.agg_.status_ = PC_STATUS_TRADING
              THEN [self EXCEPT !.prev_slot_ = self.agg_.pub_slot_,
                                !.prev_price_ = self.agg_.price_,
                                !.prev_conf_ = self.agg_.conf_,
                                !.prev_timestamp_ = self.timestamp_]
              ELSE self
        a2 == [a1 EXCEPT !.agg_.pub_slot_ = s, !.timestamp_ = s]
    IN  IF outcome = Failed
        THEN [a2 EXCEPT !.agg_.status_ = PC_STATUS_UNKNOWN]
        ELSE [a2 EXCEPT !.agg_.status_ = PC_STATUS_TRADING,
                        !.agg_.price_ = outcome[1],
                        !.agg_.conf_ = outcome[2],
                        !.last_slot_ = s]

InitOrdered ==
    /\ \E lat \in {0, 2} : account = [ZeroAccount EXCEPT !.max_latency_ = lat]
    /\ overflow_checks \in BOOLEAN
    /\ overflowed = FALSE
    /\ panicked = FALSE
    /\ op = "init"
    /\ calls = <<>>
    /\ folds = 0
    /\ msg = NoMsg
    /\ bytes = <<>>
    /\ slot = 0
    /\ snap = NoSnap

\* the host reaches a later slot, the aggregation runs in it and
\* update_price_cumulative follows
aggregate ==
    /\ ~panicked
    /\ folds < MaxAggs
    /\ \E d \in SlotSteps, outcome \in {Failed} \cup Quotes :
          LET s == slot + d
              a == UpdAggregate(account, s, outcome)
              r == UpdatePriceCumulative(a, overflow_checks)
          IN  /\ s <= U64_MAX
              /\ slot' = s
              /\ account' = r.account
              /\ overflowed' = r.overflowed
              /\ panicked' = r.panicked
              /\ calls' = IF outcome = Failed THEN calls
                          ELSE Append(calls, [price |-> outcome[1],
                                              conf |-> outcome[2],
                                              slot_gap |-> s - a.prev_slot_,
                                              max_latency |-> a.max_latency_])
    /\ folds' = folds + 1
    /\ op' = "aggregate"
    /\ UNCHANGED <<overflow_checks, msg, bytes, snap>>

\* a caller captures the account as it is (the snapshot t)
snapshot ==
    /\ ~panicked
    /\ ~snap.taken
    /\ snap' = [taken |-> TRUE, account |-> account, at |-> Len(calls)]
    /\ op' = "snapshot"
    /\ UNCHANGED <<account, overflow_checks, overflowed, panicked, calls, folds,
                   msg, bytes, slot>>

NextOrdered == aggregate \/ snapshot

SpecOrdered == InitOrdered /\ [][NextOrdered]_vars

\* the successful aggregations between the snapshot t and now
Between == SubSeq(calls, snap.at + 1, Len(calls))

\* integer division as Rust's `/` does it (towards zero)
TruncDiv(a, b) == IF a >= 0 THEN a \div b ELSE -((-a) \div b)

Abs(x) == IF x >= 0 THEN x ELSE -x

-----------------------------------------------------------------------------
(* PythOracleSerialize::to_bytes *)

\* the bytes least significant first
RECURSIVE to_le_bytes(_, _)
to_le_bytes(v, n) ==
    IF n = 0 THEN <<>> ELSE <<v % 256>> \o to_le_bytes(v \div 256, n - 1)
\* to_be_bytes of an integer of n bytes (two's complement), most significant
\* byte first
RECURSIVE to_be_bytes(_, _)
to_be_bytes(v, n) ==
    IF n = 0 THEN <<>> ELSE Append(to_be_bytes(v \div 256, n - 1), v % 256)

\* bytes[i..i + Len(src)].clone_from_slice(src), i counted from 0
clone_from_slice(buf, i, src) ==
    [k \in 1..Len(buf) |->
        IF k > i /\ k <= i + Len(src) THEN src[k - i] ELSE buf[k]]

Zeros(n) == [k \in 1..n |-> 0]

FeedMessageSize == 1 + 32 + 8 + 8 + 4 + 8 + 8 + 8 + 8

PriceFeedMessage_to_bytes(m) ==
    LET b0 == Zeros(FeedMessageSize)
        b1 == clone_from_slice(b0, 0, <<0>>)
        b2 == clone_from_slice(b1, 1, m.feed_id)
        b3 == clone_from_slice(b2, 1 + 32, to_be_bytes(m.price, 8))
        b4 == clone_from_slice(b3, 1 + 32 + 8, to_be_bytes(m.conf, 8))
        b5 == clone_from_slice(b4, 1 + 32 + 8 + 8, to_be_bytes(m.exponent, 4))
        b6 == clone_from_slice(b5, 1 + 32 + 8 + 8 + 4, to_be_bytes(m.publish_time, 8))
        b7 == clone_from_slice(b6, 1 + 32 + 8 + 8 + 4 + 8,
                               to_be_bytes(m.prev_publish_time, 8))
        b8 == clone_from_slice(b7, 1 + 32 + 8 + 8 + 4 + 8 + 8,
                               to_be_bytes(m.ema_price, 8))
    IN  clone_from_slice(b8, 1 + 32 + 8 + 8 + 4 + 8 + 8 + 8,
                         to_be_bytes(m.ema_conf, 8))

TwapMessageSize == 1 + 32 + 16 + 16 + 8 + 4 + 8 + 8 + 8

TwapMessage_to_bytes(m) ==
    LET b0 == Zeros(TwapMessageSize)
        b1 == clone_from_slice(b0, 0, <<1>>)
        b2 == clone_from_slice(b1, 1, m.feed_id)
        b3 == clone_from_slice(b2, 1 + 32, to_be_bytes(m.cumulative_price, 16))
        b4 == clone_from_slice(b3, 1 + 32 + 16, to_be_bytes(m.cumulative_conf, 16))
        b5 == clone_from_slice(b4, 1 + 32 + 16 + 16, to_be_bytes(m.num_down_slots, 8))
        b6 == clone_from_slice(b5, 1 + 32 + 16 + 16 + 8, to_be_bytes(m.exponent, 4))
        b7 == clone_from_slice(b6, 1 + 32 + 16 + 16 + 8 + 4,
                               to_be_bytes(m.publish_time, 8))
        b8 == clone_from_slice(b7, 1 + 32 + 16 + 16 + 8 + 4 + 8,
                               to_be_bytes(m.prev_publish_time, 8))
    IN  clone_from_slice(b8, 1 + 32 + 16 + 16 + 8 + 4 + 8 + 8,
                         to_be_bytes(m.publish_slot, 8))

\* the count as a truncating cast (`as u16`) would compute it
CapCountTruncated(len) == len % (U16_MAX + 1)
\* u16::try_from(self.caps.as_ref().len()).unwrap_or(u16::MAX)
CapCount(len) == IF len <= U16_MAX THEN len ELSE U16_MAX

\* the loop over self.caps
RECURSIVE CapEntries(_)
CapEntries(caps) ==
    IF caps = <<>> THEN <<>>
    ELSE caps[1].publisher \o to_be_bytes(caps[1].cap, 8) \o CapEntries(Tail(caps))

PublisherStakeCapsMessage_to_bytes(m) ==
    <<2>> \o to_be_bytes(m.publish_time, 8)
          \o to_be_bytes(CapCount(Len(m.caps)), 2)
          \o CapEntries(m.caps)

\* the payloads: values of one and of several bytes, of both signs
Signed64s == {-2, 258}
Unsigned64s == {1, 65537}
Exponents == {-5, 3}
Caps == {[publisher |-> KeyBytes(7), cap |-> 300],
         [publisher |-> KeyBytes(99), cap |-> 1]}

RECURSIVE SeqsUpTo(_, _)
SeqsUpTo(S, n) ==
    IF n = 0 THEN {<<>>}
    ELSE LET shorter == SeqsUpTo(S, n - 1)
         IN  shorter \cup {Append(q, x) : q \in shorter, x \in S}

CapLists == SeqsUpTo(Caps, U16_MAX + 2)

\* the payloads to encode
FeedMessages ==
    {[kind |-> "PriceFeedMessage", feed_id |-> key,
      price |-> price, conf |-> conf, exponent |-> exponent,
      publish_time |-> publish_time, prev_publish_time |-> publish_time - 10,
      ema_price |-> ema_price, ema_conf |-> ema_conf] :
        key \in Keys, price \in Signed64s, conf \in Unsigned64s,
        exponent \in Exponents, publish_time \in Signed64s,
        ema_price \in Signed64s, ema_conf \in Unsigned64s}

TwapMessages ==
    {[kind |-> "TwapMessage", feed_id |-> key,
      cumulative_price |-> cumulative_price, cumulative_conf |-> cumulative_conf,
      num_down_slots |-> num_down_slots, exponent |-> exponent,
      publish_time |-> publish_time, prev_publish_time |-> publish_time - 10,
      publish_slot |-> publish_slot] :
        key \in Keys, cumulative_price \in Signed64s,
        cumulative_conf \in Unsigned64s, num_down_slots \in Unsigned64s,
        exponent \in Exponents, publish_time \in Signed64s,
        publish_slot \in Unsigned64s}

StakeCapsMessages ==
    {[kind |-> "PublisherStakeCapsMessage", publish_time |-> publish_time,
      caps |-> caps] : publish_time \in Signed64s, caps \in CapLists}

InitWire ==
    /\ account = ZeroAccount
    /\ overflow_checks = FALSE
    /\ overflowed = FALSE
    /\ panicked = FALSE
    /\ op = "init"
    /\ calls = <<>>
    /\ folds = 0
    /\ msg \in FeedMessages \cup TwapMessages \cup StakeCapsMessages
    /\ bytes = <<>>
    /\ slot = 0
    /\ snap = NoSnap

to_bytes_PriceFeedMessage ==
    /\ op = "init"
    /\ msg.kind = "PriceFeedMessage"
    /\ bytes' = PriceFeedMessage_to_bytes(msg)
    /\ op' = "to_bytes"
    /\ UNCHANGED <<account, overflow_checks, overflowed, panicked, calls, folds,
                   msg, slot, snap>>

to_bytes_TwapMessage ==
    /\ op = "init"
    /\ msg.kind = "TwapMessage"
    /\ bytes' = TwapMessage_to_bytes(msg)
    /\ op' = "to_bytes"
    /\ UNCHANGED <<account, overflow_checks, overflowed, panicked, calls, folds,
                   msg, slot, snap>>

to_bytes_PublisherStakeCapsMessage ==
    /\ op = "init"
    /\ msg.kind = "PublisherStakeCapsMessage"
    /\ bytes' = PublisherStakeCapsMessage_to_bytes(msg)
    /\ op' = "to_bytes"
    /\ UNCHANGED <<account, overflow_checks, overflowed, panicked, calls, folds,
                   msg, slot, snap>>

NextWire ==
    \/ to_bytes_PriceFeedMessage
    \/ to_bytes_TwapMessage
    \/ to_bytes_PublisherStakeCapsMessage

SpecWire == InitWire /\ [][NextWire]_vars

\* bs is the big-endian encoding of the unsigned integer v: read from the
\* least significant byte, nothing is left of v when the bytes are used up
RECURSIVE IsUnsignedBE(_, _)
IsUnsignedBE(bs, v) ==
    IF bs = <<>> THEN v = 0
    ELSE /\ bs[Len(bs)] = v % 256
         /\ IsUnsignedBE(SubSeq(bs, 1, Len(bs) - 1), v \div 256)

\* bs is the big-endian two's complement encoding of the integer v
RECURSIVE IsSignedBE(_, _)
IsSignedBE(bs, v) ==
    IF Len(bs) = 1
    THEN /\ v \in -128..127
         /\ bs[1] = (IF v < 0 THEN v + 256 ELSE v)
    ELSE /\ bs[Len(bs)] = v % 256
         /\ IsSignedBE(SubSeq(bs, 1, Len(bs) - 1), v \div 256)

\* the field of `len` bytes that starts `off` bytes into the encoding
Field(off, len) == SubSeq(bytes, off + 1, off + len)

\* the layout of the three encodings, with an encoded PriceFeedMessage of
\* feed_size bytes: the discriminator, then the fields in declaration order,
\* each big-endian at its own width with no padding
WireLayout(feed_size) ==
    op = "to_bytes" =>
        /\ \A k \in 1..Len(bytes) : bytes[k] \in 0..255
        /\ msg.kind = "PriceFeedMessage" =>
              /\ Len(bytes) = feed_size
              /\ bytes[1] = 0
              /\ Field(1, 32) = msg.feed_id
              /\ IsSignedBE(Field(33, 8), msg.price)
              /\ IsUnsignedBE(Field(41, 8), msg.conf)
              /\ IsSignedBE(Field(49, 4), msg.exponent)
              /\ IsSignedBE(Field(53, 8), msg.publish_time)
              /\ IsSignedBE(Field(61, 8), msg.prev_publish_time)
              /\ IsSignedBE(Field(69, 8), msg.ema_price)
              /\ IsUnsignedBE(Field(77, 8), msg.ema_conf)
        /\ msg.kind = "TwapMessage" =>
              /\ Len(bytes) = 101
              /\ bytes[1] = 1
              /\ Field(1, 32) = msg.feed_id
              /\ IsSignedBE(Field(33, 16), msg.cumulative_price)
              /\ IsUnsignedBE(Field(49, 16), msg.cumulative_conf)
              /\ IsUnsignedBE(Field(65, 8), msg.num_down_slots)
              /\ IsSignedBE(Field(73, 4), msg.exponent)
              /\ IsSignedBE(Field(77, 8), msg.publish_time)
              /\ IsSignedBE(Field(85, 8), msg.prev_publish_time)
              /\ IsUnsignedBE(Field(93, 8), msg.publish_slot)
        /\ msg.kind = "PublisherStakeCapsMessage" =>
              /\ bytes[1] = 2
              /\ IsSignedBE(Field(1, 8), msg.publish_time)

\* C7 as stated: an encoded PriceFeedMessage is 81 bytes and starts with 0, an
\* encoded TwapMessage is 101 bytes and starts with 1, an encoded
\* PublisherStakeCapsMessage starts with 2; after the discriminator the
\* fields follow in declaration order, each big-endian at its own width
\* with no padding.
C7_FeedMessageIs81Bytes == WireLayout(81)

\* C7, amended: the same layout, with an encoded PriceFeedMessage of 85 bytes
\* (1 + 32 + 8 + 8 + 4 + 8 + 8 + 8 + 8).
C7_WireLayout == WireLayout(85)

\* C7 witness: a PriceFeedMessage with negative and multi-byte fields was encoded
C7_Witness ==
    /\ op = "to_bytes"
    /\ msg.kind = "PriceFeedMessage"
    /\ msg.price < 0 /\ msg.exponent < 0 /\ msg.ema_price > 255
    /\ msg.conf > 65535
    /\ Len(bytes) = 85
    /\ Field(33, 8) = <<255, 255, 255, 255, 255, 255, 255, 254>>
    /\ Field(41, 8) = <<0, 0, 0, 0, 0, 1, 0, 1>>

Min(a, b) == IF a <= b THEN a ELSE b

\* C8: the encoded PublisherStakeCapsMessage carries a two-byte count equal
\* to the length of caps saturated at u16::MAX, then one 40-byte (publisher,
\* cap) entry for every element of caps in order; the count equals the
\* number of entries encoded exactly when caps has at most u16::MAX elements.
C8_StakeCapsCountSaturates ==
    (op = "to_bytes" /\ msg.kind = "PublisherStakeCapsMessage") =>
        LET n == Len(msg.caps)
        IN  /\ IsUnsignedBE(Field(9, 2), Min(n, U16_MAX))
            /\ Len(bytes) = 1 + 8 + 2 + 40 * n
            /\ \A k \in 1..n :
                  /\ Field(11 + 40 * (k - 1), 32) = msg.caps[k].publisher
                  /\ IsUnsignedBE(Field(11 + 40 * (k - 1) + 32, 8), msg.caps[k].cap)
            /\ IsUnsignedBE(Field(9, 2), (Len(bytes) - 11) \div 40) <=> (n <= U16_MAX)

\* C8 witness: more caps than u16::MAX were encoded: every entry is there and the count
\* stays at u16::MAX
C8_Witness ==
    /\ op = "to_bytes"
    /\ msg.kind = "PublisherStakeCapsMessage"
    /\ Len(msg.caps) = U16_MAX + 2
    /\ msg.caps[1] # msg.caps[2]
    /\ Len(bytes) = 11 + 40 * (U16_MAX + 2)
    /\ IsUnsignedBE(Field(9, 2), U16_MAX)

====
